---- MODULE Spec2Model ----
(***************************************************************************)
(* A model of Datasets/Geekbench/scrape.py: the page fetcher (get_soup),   *)
(* the pagination detector, the three schema parsers and the scrape        *)
(* driver.  Text is modelled by TLA+ strings, Python's None by the empty   *)
(* tuple and a present optional value v by the one-element tuple <<v>>.    *)
(***************************************************************************)
EXTENDS Integers, Sequences, FiniteSets, TLC

\* ------------------------------------------------------------------ bounds
\* Largest page number a pagination link or the --max-pages override names.
MaxPages == 2
\* Largest number of labelled statistic columns of one card.
MaxCols == 3

\* ------------------------------------------------------- Python's Optional
None == <<>>

Some(v) == <<v>>

IsNone(o) == o = <<>>

Val(o) == o[1]

\* ------------------------------------------------------------ text helpers
Ch(s, i) == SubSeq(s, i, i)

IsWs(c) == c \in {" ", "\t", "\n"}

IsDigit(c) == c \in {"0", "1", "2", "3", "4", "5", "6", "7", "8", "9"}

DigitVal(c) ==
  CASE c = "0" -> 0 [] c = "1" -> 1 [] c = "2" -> 2 [] c = "3" -> 3
    [] c = "4" -> 4 [] c = "5" -> 5 [] c = "6" -> 6 [] c = "7" -> 7
    [] c = "8" -> 8 [] c = "9" -> 9

\* str.strip(): leading and trailing whitespace removed.
RECURSIVE LStrip(_)
LStrip(s) ==
  IF Len(s) > 0 /\ IsWs(Ch(s, 1)) THEN LStrip(SubSeq(s, 2, Len(s))) ELSE s

RECURSIVE RStrip(_)
RStrip(s) ==
  IF Len(s) > 0 /\ IsWs(Ch(s, Len(s))) THEN RStrip(SubSeq(s, 1, Len(s) - 1)) ELSE s

Strip(s) == RStrip(LStrip(s))

\* WS_RE.sub(" ", s): every maximal run of whitespace becomes one space.
RECURSIVE CollapseWs(_)
CollapseWs(s) ==
  IF Len(s) = 0 THEN ""
  ELSE IF IsWs(Ch(s, 1))
       THEN " " \o CollapseWs(LStrip(s))
       ELSE Ch(s, 1) \o CollapseWs(SubSeq(s, 2, Len(s)))

oneline(s) == Strip(CollapseWs(s))

\* s.replace(",", "")
RECURSIVE DropCommas(_)
DropCommas(s) ==
  IF Len(s) = 0 THEN ""
  ELSE (IF Ch(s, 1) = "," THEN "" ELSE Ch(s, 1)) \o DropCommas(SubSeq(s, 2, Len(s)))

AllDigits(s) == Len(s) > 0 /\ \A i \in 1..Len(s) : IsDigit(Ch(s, i))

\* int(s) of a string of decimal digits.
RECURSIVE DecValue(_)
DecValue(s) ==
  IF Len(s) = 0 THEN 0
  ELSE 10 * DecValue(SubSeq(s, 1, Len(s) - 1)) + DigitVal(Ch(s, Len(s)))

\* _to_int (and the to_int local to parse_v4_row, which has the same body):
\* thousands separators dropped, then an integer only if all digits.
ToIntBody(s) ==
  LET t == Strip(DropCommas(s))
  IN  IF AllDigits(t) THEN Some(DecValue(t)) ELSE None

_to_int(s) == ToIntBody(s)

to_int(s) == ToIntBody(s)

StartsWith(s, pre) == Len(s) >= Len(pre) /\ SubSeq(s, 1, Len(pre)) = pre

EndsWith(s, suf) ==
  Len(s) >= Len(suf) /\ SubSeq(s, Len(s) - Len(suf) + 1, Len(s)) = suf

\* Python's `sub in s`.
Contains(s, sub) ==
  \E i \in 1..(Len(s) - Len(sub) + 1) : SubSeq(s, i, i + Len(sub) - 1) = sub

\* _text(el): the normalised text of an element, "" for a missing one.
_text(el) == IF IsNone(el) THEN "" ELSE oneline(Strip(Val(el)))

\* --------------------------------------------- MHZ_RE, CORES_RE (re.I, search)
\* Lower-casing of the letters the two patterns name (re.I).
Lower(c) ==
  CASE c = "M" -> "m" [] c = "H" -> "h" [] c = "Z" -> "z" [] c = "C" -> "c"
    [] c = "O" -> "o" [] c = "R" -> "r" [] c = "E" -> "e" [] c = "S" -> "s"
    [] OTHER -> c

\* The literal `word` (given in lower case) stands at position i of s, any case.
MatchCI(s, i, word) ==
  /\ i + Len(word) - 1 <= Len(s)
  /\ \A k \in 1..Len(word) : Lower(Ch(s, i + k - 1)) = Ch(word, k)

\* Index of the last character of the maximal run of digits starting at i
\* (i - 1 when there is none); the same for whitespace.
RECURSIVE DigitRunEnd(_, _)
DigitRunEnd(s, i) ==
  IF i <= Len(s) /\ IsDigit(Ch(s, i)) THEN DigitRunEnd(s, i + 1) ELSE i - 1

RECURSIVE WsRunEnd(_, _)
WsRunEnd(s, i) ==
  IF i <= Len(s) /\ IsWs(Ch(s, i)) THEN WsRunEnd(s, i + 1) ELSE i - 1

RECURSIVE RStripZeros(_)
RStripZeros(s) ==
  IF Len(s) > 0 /\ Ch(s, Len(s)) = "0" THEN RStripZeros(SubSeq(s, 1, Len(s) - 1)) ELSE s

\* float(g) of a text g matching \d+(\.\d+)?: the pair <<m, d>> stands for
\* m / 10^d with no trailing zero decimal, so that equal floats are equal pairs.
ToFloat(g) ==
  LET j    == DigitRunEnd(g, 1)
      frac == IF j < Len(g) THEN RStripZeros(SubSeq(g, j + 2, Len(g))) ELSE ""
  IN  <<DecValue(SubSeq(g, 1, j) \o frac), Len(frac)>>

\* group(1) of MHZ_RE = (\d+(?:\.\d+)?)\s*MHz matched at position i, or None.
MhzMatchAt(s, i) ==
  LET j       == DigitRunEnd(s, i)
      hasFrac == j + 2 <= Len(s) /\ Ch(s, j + 1) = "." /\ IsDigit(Ch(s, j + 2))
      k       == IF hasFrac THEN DigitRunEnd(s, j + 2) ELSE j
      w       == WsRunEnd(s, k + 1)
  IN  IF j >= i /\ MatchCI(s, w + 1, "mhz") THEN Some(SubSeq(s, i, k)) ELSE None

\* group(1) of CORES_RE = \((\d+)\s+cores?\) matched at position i, or None.
CoresMatchAt(s, i) ==
  LET j == DigitRunEnd(s, i + 1)
      w == WsRunEnd(s, j + 1)
      e == w + 5
      c == IF e <= Len(s) /\ Lower(Ch(s, e)) = "s" THEN e + 1 ELSE e
  IN  IF /\ i <= Len(s) /\ Ch(s, i) = "("
         /\ j >= i + 1 /\ w >= j + 1
         /\ MatchCI(s, w + 1, "core")
         /\ c <= Len(s) /\ Ch(s, c) = ")"
      THEN Some(SubSeq(s, i + 1, j)) ELSE None

\* `if m := MHZ_RE.search(text): mhz = float(m.group(1))`, else None.
ExtractMHz(s) ==
  LET hits == {i \in 1..Len(s) : ~IsNone(MhzMatchAt(s, i))}
  IN  IF hits = {} THEN None
      ELSE LET i == CHOOSE x \in hits : \A y \in hits : x <= y
           IN  Some(ToFloat(Val(MhzMatchAt(s, i))))

\* `if m := CORES_RE.search(text): cores = int(m.group(1))`, else None.
ExtractCores(s) ==
  LET hits == {i \in 1..Len(s) : ~IsNone(CoresMatchAt(s, i))}
  IN  IF hits = {} THEN None
      ELSE LET i == CHOOSE x \in hits : \A y \in hits : x <= y
           IN  Some(DecValue(Val(CoresMatchAt(s, i))))

\* ------------------------------------------------ records as ordered dicts
\* A record is a Python dict: a sequence of <<key, value>> in insertion order.
Get(d, k) == d[CHOOSE i \in 1..Len(d) : d[i][1] = k][2]

RECURSIVE Put(_, _, _)
Put(d, k, v) ==
  IF Len(d) = 0 THEN <<>>
  ELSE <<IF Head(d)[1] = k THEN <<k, v>> ELSE Head(d)>> \o Put(Tail(d), k, v)

Keys(d) == [i \in 1..Len(d) |-> d[i][1]]

\* el.get_text(" ", strip=True) of an element holding one text node.
get_text(el) == Strip(el.text)

\* ------------------------------------------------------------- CPU v4
\* A <tr> is its sequence of <td>; a <td> is [text, a, span]: its own text,
\* its first <a> (None or [text, href], href None when the attribute is
\* missing) and its first <span> (None or [text, ts], ts telling whether the
\* span has class timestamp-to-local-min).
HasTimestamp(td) == ~IsNone(td.span) /\ Val(td.span).ts

parse_v4_row(tr) ==
  IF Len(tr) # 6 THEN None
  ELSE IF ~HasTimestamp(tr[1]) THEN None
  ELSE
    LET model_a == tr[2].a
        system  == oneline(IF ~IsNone(model_a) THEN get_text(Val(model_a))
                                               ELSE get_text(tr[2]))
        details_span == tr[2].span
        details_text == IF IsNone(details_span) THEN ""
                        ELSE oneline(get_text(Val(details_span)))
        user_a  == tr[4].a
    IN  Some(<< <<"Uploaded", oneline(get_text(tr[1]))>>,
                <<"System", system>>,
                <<"CPU Details", details_text>>,
                <<"Frequency_MHz", IF IsNone(details_span) THEN None
                                   ELSE ExtractMHz(details_text)>>,
                <<"Cores", IF IsNone(details_span) THEN None
                           ELSE ExtractCores(details_text)>>,
                <<"Platform", oneline(get_text(tr[3]))>>,
                <<"User", IF IsNone(user_a) THEN "" ELSE oneline(get_text(Val(user_a)))>>,
                <<"Single-Core Score", to_int(oneline(get_text(tr[5])))>>,
                <<"Multi-Core Score", to_int(oneline(get_text(tr[6])))>>,
                <<"Result URL", IF ~IsNone(model_a) /\ ~IsNone(Val(model_a).href)
                                THEN Val(Val(model_a).href) ELSE "">>,
                <<"Schema", "v4">> >>)

\* The rows a list of optional rows holds, in order (`if row: out.append(row)`).
Kept(rs) ==
  LET some == SelectSeq(rs, LAMBDA r : ~IsNone(r))
  IN  [i \in 1..Len(some) |-> Val(some[i])]

\* A document is [pag, table, inners]: the links of ul.pagination (or None),
\* the <tr> of table.geekbench3-index (or None) and the card blocks
\* .list-col .list-col-inner.
parse_v4_page(soup) ==
  IF IsNone(soup.table) THEN <<>>
  ELSE LET trs == Val(soup.table)
       IN  Kept([i \in 1..Len(trs) |-> parse_v4_row(trs[i])])

\* ------------------------------------------------------ CPU v6 / GPU v6
\* A card block is [sys_col, cols].  sys_col is the first .col-12.col-lg-4
\* (None or [anchors, model]: its <a> elements as [href, text] in document
\* order and the text of its .list-col-model, or None).  cols are the
\* .col-6.col-md-3.col-lg-2 columns, each [label, text, score, user]: the text
\* of its subtitle element, of its .list-col-text, of its .list-col-text-score
\* and of its a[href^='/user/'], each None when the element is missing.

\* select_one("a[href^='<prefix>']"): the first anchor with that href prefix.
SelectAnchor(anchors, prefix) ==
  LET hits == {i \in 1..Len(anchors) : StartsWith(anchors[i].href, prefix)}
  IN  IF hits = {} THEN None
      ELSE Some(anchors[CHOOSE x \in hits : \A y \in hits : x <= y])

\* The left column of a card, the same code in both card parsers.
LeftColumn(data, inner, prefix) ==
  IF IsNone(inner.sys_col) THEN data
  ELSE
    LET sys_col == Val(inner.sys_col)
        a  == SelectAnchor(sys_col.anchors, prefix)
        d1 == IF IsNone(a) THEN data
              ELSE Put(Put(data, "System", _text(Some(Val(a).text))),
                       "Result URL", Val(a).href)
        model_text == _text(sys_col.model)
    IN  IF IsNone(sys_col.model) THEN d1
        ELSE Put(Put(Put(d1, "CPU Details", model_text),
                     "Frequency_MHz", ExtractMHz(model_text)),
                 "Cores", ExtractCores(model_text))

V6CpuData ==
  << <<"Uploaded", "">>, <<"System", "">>, <<"CPU Details", "">>,
     <<"Frequency_MHz", None>>, <<"Cores", None>>, <<"Platform", "">>,
     <<"User", "">>, <<"Single-Core Score", None>>, <<"Multi-Core Score", None>>,
     <<"Result URL", "">>, <<"Schema", "v6">> >>

\* One iteration of the loop over the right columns of a CPU card.
CpuColumn(data, col) ==
  IF IsNone(col.label) THEN data
  ELSE
    LET key == _text(col.label)
    IN  IF key \in {"Uploaded", "Platform"}
        THEN LET d1 == Put(data, key, _text(col.text))
             IN  IF key = "Uploaded" /\ ~IsNone(col.user)
                 THEN Put(d1, "User", _text(col.user)) ELSE d1
        ELSE IF key \in {"Single-Core Score", "Multi-Core Score"}
        THEN Put(data, key, _to_int(_text(col.score)))
        ELSE data

RECURSIVE CpuColumns(_, _)
CpuColumns(data, cols) ==
  IF Len(cols) = 0 THEN data
  ELSE CpuColumns(CpuColumn(data, Head(cols)), Tail(cols))

parse_v6_cpu_block(inner) ==
  LET data == CpuColumns(LeftColumn(V6CpuData, inner, "/v6/cpu/"), inner.cols)
  IN  IF Get(data, "System") = "" /\ Get(data, "Result URL") = ""
      THEN None ELSE Some(data)

parse_v6_cpu_page(soup) ==
  Kept([i \in 1..Len(soup.inners) |-> parse_v6_cpu_block(soup.inners[i])])

V6ComputeData ==
  << <<"Uploaded", "">>, <<"System", "">>, <<"CPU Details", "">>,
     <<"Frequency_MHz", None>>, <<"Cores", None>>, <<"Platform", "">>,
     <<"API", "">>, <<"Score Label", "">>, <<"Compute Score", None>>,
     <<"Result URL", "">>, <<"Schema", "v6-compute">> >>

\* ComputeColumn keeping the first score label seen while the score is
\* still overwritten by every score column.
ComputeColumnFirstLabel(data, col) ==
  IF IsNone(col.label) THEN data
  ELSE
    LET label == _text(col.label)
    IN  IF label \in {"Uploaded", "Platform", "API"}
        THEN Put(data, label, _text(col.text))
        ELSE IF EndsWith(label, "Score")
        THEN Put(IF Get(data, "Score Label") = "" THEN Put(data, "Score Label", label)
                 ELSE data,
                 "Compute Score", _to_int(_text(col.score)))
        ELSE data

\* One iteration of the loop over the right columns of a compute card.
ComputeColumn(data, col) ==
  IF IsNone(col.label) THEN data
  ELSE
    LET label == _text(col.label)
    IN  IF label \in {"Uploaded", "Platform", "API"}
        THEN Put(data, label, _text(col.text))
        ELSE IF EndsWith(label, "Score")
        THEN Put(Put(data, "Score Label", label),
                 "Compute Score", _to_int(_text(col.score)))
        ELSE data

RECURSIVE ComputeColumns(_, _)
ComputeColumns(data, cols) ==
  IF Len(cols) = 0 THEN data
  ELSE ComputeColumns(ComputeColumn(data, Head(cols)), Tail(cols))

parse_v6_compute_block(inner) ==
  LET data == ComputeColumns(LeftColumn(V6ComputeData, inner, "/v6/compute/"),
                             inner.cols)
  IN  IF Get(data, "System") = "" /\ Get(data, "Result URL") = ""
      THEN None ELSE Some(data)

parse_v6_compute_page(soup) ==
  Kept([i \in 1..Len(soup.inners) |-> parse_v6_compute_block(soup.inners[i])])

\* ------------------------------------------------------ parser inputs
SeqsUpTo(S, n) == UNION {[1..k -> S] : k \in 0..n}

Td(t) == [text |-> t, a |-> None, span |-> None]

\* First cells: with the timestamp marker, with another span, with no span.
V4FirstCells ==
  { [text |-> " Nov 02,  2025 ", a |-> None,
     span |-> Some([text |-> "Nov 02, 2025", ts |-> TRUE])],
    [text |-> "Uploaded", a |-> None,
     span |-> Some([text |-> "Uploaded", ts |-> FALSE])],
    Td("Uploaded") }

\* Second cells: the system link (with and without href or text) and the
\* details span.
V4ModelCells ==
  { [text |-> t, a |-> a, span |-> sp] :
      t \in {"", " iMac \n 5K "},
      a \in {None,
             Some([text |-> " Mac  mini ", href |-> Some("/v4/cpu/1")]),
             Some([text |-> "", href |-> None]),
             Some([text |-> "", href |-> Some("/v4/cpu/2")])},
      sp \in {None,
              Some([text |-> "Intel Core i7 3200 MHz (4 cores)", ts |-> FALSE]),
              Some([text |-> "ARM 1.50mhz (1 Core)", ts |-> FALSE])} }

V4UserCells ==
  { Td("anon"), [text |-> "bob", a |-> Some([text |-> " bob ", href |-> Some("/user/bob")]),
                 span |-> None] }

ScoreTexts == {"1,234", "12a", ""}

V4Rows ==
  { <<c1, c2, Td("macOS"), c4, Td(s5), Td(s6)>> :
      c1 \in V4FirstCells, c2 \in V4ModelCells, c4 \in V4UserCells,
      s5 \in ScoreTexts, s6 \in {"987", " 1 ,"} }
  \cup { <<c1, c2, Td("macOS"), Td("anon"), Td("5")>> :
           c1 \in V4FirstCells, c2 \in V4ModelCells }
  \cup { <<c1, c2, Td("macOS"), Td("anon"), Td("5"), Td("6"), Td("7")>> :
           c1 \in V4FirstCells, c2 \in V4ModelCells }

SysCols ==
  { None,
    Some([anchors |-> <<>>, model |-> Some("Apple M2 3480 MHz (8 cores)")]),
    Some([anchors |-> <<[href |-> "/v6/compute/7", text |-> " RTX \n 4090 "]>>,
          model |-> Some("AMD Ryzen 9 (16 cores)")]),
    Some([anchors |-> <<[href |-> "/v6/compute/8", text |-> ""]>>, model |-> None]),
    Some([anchors |-> <<[href |-> "/v6/cpu/9", text |-> "MacBook Pro"]>>,
          model |-> Some("Apple M2 3480 MHz (8 cores)")]),
    Some([anchors |-> <<[href |-> "/user/bob", text |-> "bob"],
                        [href |-> "/v6/cpu/10", text |-> "Pixel 8"],
                        [href |-> "/v6/compute/11", text |-> "Pixel 8 GPU"]>>,
          model |-> None]) }

Col(l, t, sc, u) == [label |-> l, text |-> t, score |-> sc, user |-> u]

StatCols ==
  { Col(None, Some("x"), Some("5"), None),
    Col(Some("API"), Some(" Vulkan "), None, None),
    Col(Some("API"), Some("Metal"), Some("3"), None),
    Col(Some(" API "), None, None, None),
    Col(Some("Uploaded"), Some("Nov 02,  2025"), None, Some("bob")),
    Col(Some("Platform"), Some("Linux"), None, None),
    Col(Some(" Vulkan \n Score "), None, Some("1,234"), None),
    Col(Some("Metal Score"), None, Some("12a"), None),
    Col(Some("Metal Score"), None, Some("77"), None),
    Col(Some("Single-Core Score"), None, Some("2,000"), None),
    Col(Some("Scores"), None, Some("5"), None) }

Cards == { [sys_col |-> sc, cols |-> cs] : sc \in SysCols, cs \in SeqsUpTo(StatCols, MaxCols) }

\* ---------------------------------------------------------------- driver
\* range(3) of get_soup.
Attempts == 3

is_v6_cpu(url) == Contains(url, "/v6/cpu")

is_v6_compute(url) == Contains(url, "/v6/compute")

is_v4_cpu(url) == Contains(url, "/v4/cpu")

\* The if/elif chain of scrape: the mode, or None where SystemExit is raised.
SelectMode(b) ==
  IF is_v6_compute(b) THEN Some("v6-compute")
  ELSE IF is_v6_cpu(b) THEN Some("v6-cpu")
  ELSE IF is_v4_cpu(b) THEN Some("v4-cpu")
  ELSE None

\* r.raise_for_status() of requests: HTTPError for a 4xx or 5xx status only.
RaisesHTTPError(status) == 400 <= status /\ status < 600

Max(S) == CHOOSE x \in S : \A y \in S : y <= x

\* str.isdigit() of ASCII text.
isdigit(t) == AllDigits(t)

detect_max_pages(soup) ==
  IF IsNone(soup.pag) THEN 1
  ELSE LET links == Val(soup.pag)
           nums  == {DecValue(Strip(links[i])) :
                       i \in {j \in 1..Len(links) : isdigit(Strip(links[j]))}}
       IN  IF nums # {} THEN Max(nums) ELSE 1

\* TotalPages with the override taken whenever one is given, positive or not.
TotalPagesAnyOverride(mp, det) == IF ~IsNone(mp) THEN Val(mp) ELSE det

\* pages = max_pages if (max_pages and max_pages > 0) else detected
TotalPages(mp, det) ==
  IF ~IsNone(mp) /\ Val(mp) # 0 /\ Val(mp) > 0 THEN Val(mp) ELSE det

\* The parser the loop body of scrape applies in each mode.
ParsePage(m, soup) ==
  IF m = "v6-compute" THEN parse_v6_compute_page(soup)
  ELSE IF m = "v6-cpu" THEN parse_v6_cpu_page(soup)
  ELSE parse_v4_page(soup)

\* Extend with the accumulator overwritten by the page's rows.
ExtendOverwrites(all, rows) == rows

\* all_rows.extend(rows)
Extend(all, rows) == all \o rows

cpu_cols ==
  <<"Uploaded", "System", "CPU Details", "Frequency_MHz", "Cores", "Platform", "User",
    "Single-Core Score", "Multi-Core Score", "Result URL", "Schema">>

gpu_cols ==
  <<"Uploaded", "System", "CPU Details", "Frequency_MHz", "Cores", "Platform",
    "API", "Score Label", "Compute Score", "Result URL", "Schema">>

\* ColsFor with the GPU branch forgotten.
ColsForCpuOnly(m) == cpu_cols

ColsFor(m) == IF m = "v6-compute" THEN gpu_cols ELSE cpu_cols

Range(q) == {q[i] : i \in 1..Len(q)}

\* pd.DataFrame(list of dicts): the columns are the keys in order of first
\* appearance; a frame is [columns, rows], a cell a record lacks is null.
RECURSIVE FrameColumns(_, _)
FrameColumns(cols, rows) ==
  IF Len(rows) = 0 THEN cols
  ELSE LET ks  == Keys(Head(rows))
           new == SelectSeq(ks, LAMBDA k : k \notin Range(cols))
       IN  FrameColumns(cols \o new, Tail(rows))

DataFrame(rows) == [columns |-> FrameColumns(<<>>, rows), rows |-> rows]

Cell(row, c) == IF c \in Range(Keys(row)) THEN Get(row, c) ELSE None

\* for c in cols: if c not in df.columns: df[c] = None
FillMissing(df, cols) ==
  [df EXCEPT !.columns = @ \o SelectSeq(cols, LAMBDA c : c \notin Range(@))]

\* df[cols]: KeyError (None here) when a column is missing.
Project(df, cols) ==
  IF \E i \in 1..Len(cols) : cols[i] \notin Range(df.columns) THEN None
  ELSE Some([columns |-> cols,
             rows |-> [i \in 1..Len(df.rows) |->
                         [j \in 1..Len(cols) |-> <<cols[j], Cell(df.rows[i], cols[j])>>]]])

\* ------------------------------------------------------------ driver inputs
Bases ==
  { "https://browser.geekbench.com/v6/compute",
    "https://browser.geekbench.com/v6/cpu/singlecore",
    "https://browser.geekbench.com/v4/cpu/multicore",
    "https://browser.geekbench.com/v5/cpu/search",
    "https://browser.geekbench.com/v4/cpu/v6/cpu" }

Overrides == {None} \cup {Some(n) : n \in -1..MaxPages}

Statuses == {200, 204, 503}

RECURSIVE Dec(_)
Dec(n) ==
  IF n < 10 THEN SubSeq("0123456789", n + 1, n + 1)
  ELSE Dec(n \div 10) \o SubSeq("0123456789", (n % 10) + 1, (n % 10) + 1)

PagLinks(n) == <<"Prev">> \o [i \in 1..n |-> " " \o Dec(i) \o " "] \o <<"Next">>

Paginations ==
  {None, Some(<<"0">>), Some(<<"2", "1", "Next">>)}
  \cup {Some(PagLinks(n)) : n \in 0..MaxPages}

GoodTr ==
  << [text |-> "Nov 02", a |-> None, span |-> Some([text |-> "Nov 02", ts |-> TRUE])],
     [text |-> "", a |-> Some([text |-> " Mac  mini ", href |-> Some("/v4/cpu/1")]),
      span |-> Some([text |-> "Intel Core i7 3200 MHz (4 cores)", ts |-> FALSE])],
     Td("macOS"), Td("anon"), Td("1,234"), Td("987") >>

\* A row with the timestamp marker whose second cell has neither text nor link.
BlankTr ==
  << [text |-> "Nov 03", a |-> None, span |-> Some([text |-> "Nov 03", ts |-> TRUE])],
     Td(""), Td(""), Td(""), Td(""), Td("") >>

ShortTr == SubSeq(GoodTr, 1, 5)

BothCard ==
  [sys_col |-> Some([anchors |-> <<[href |-> "/v6/cpu/10", text |-> "Pixel 8"],
                                  [href |-> "/v6/compute/11", text |-> "Pixel 8 GPU"]>>,
                     model |-> Some("Tensor G3 2910 MHz (9 cores)")]),
   cols |-> <<Col(Some("Uploaded"), Some("Nov 02"), None, Some("bob")),
              Col(Some("API"), Some("Vulkan"), None, None),
              Col(Some("Single-Core Score"), None, Some("1,700"), None),
              Col(Some("Vulkan Score"), None, Some("8,000"), None)>>]

OtherCard ==
  [sys_col |-> Some([anchors |-> <<[href |-> "/v6/compute/12", text |-> " RTX \n 4090 "],
                                  [href |-> "/v6/cpu/13", text |-> ""]>>,
                     model |-> None]),
   cols |-> <<Col(Some("Metal Score"), None, Some("12a"), None),
              Col(Some("Multi-Core Score"), None, Some("9"), None)>>]

NoLinkCard ==
  [sys_col |-> Some([anchors |-> <<>>, model |-> Some("Apple M2")]),
   cols |-> <<Col(Some("Platform"), Some("macOS"), None, None)>>]

Contents ==
  { [table |-> None, inners |-> <<>>],
    [table |-> Some(<<GoodTr>>), inners |-> <<BothCard>>],
    [table |-> Some(<<ShortTr, GoodTr, BlankTr>>), inners |-> <<NoLinkCard, OtherCard, BothCard>>] }

Doc(pg, c) == [pag |-> pg, table |-> c.table, inners |-> c.inners]

\* The documents the server may answer the request for page n with; scrape
\* reads the pagination control of page 1 only.
Docs(n) == {Doc(pg, c) : pg \in (IF n = 1 THEN Paginations ELSE {None}), c \in Contents}

\* ------------------------------------------------------------------ state
VARIABLES
  base,       \* scrape's argument base
  max_pages,  \* scrape's argument max_pages (None when --max-pages is omitted)
  pc,         \* where the run stands: "start", "get" (inside get_soup), "got"
              \* (get_soup has returned), "loop", "done", or the error raised
  caller,     \* which call of get_soup is running: "first" or "page"
  attempt,    \* get_soup's loop variable
  resp,       \* the status codes answered to the call of get_soup that is
              \* running or has just ended (empty once its caller has gone on)
  sleeps,     \* the time.sleep arguments of that call, in order
  gets,       \* number of session.get calls of the run
  soup,       \* what the last call of get_soup returned
  first,      \* scrape's local first
  detected,   \* scrape's local detected
  pages,      \* scrape's local pages
  mode,       \* scrape's local mode
  p,          \* the loop variable of scrape
  all_rows,   \* scrape's local all_rows
  fetched,    \* the page numbers get_soup was called for, in call order
  served,     \* the documents the server answered with status 200, in order
  parsed,     \* the page numbers whose document a parser was applied to
  exhausted,  \* the page whose fetch saw Attempts non-200 answers, or None
  out_csv,    \* the frame written by to_csv, or None
  ret,        \* the frame scrape returned, or None
  block,      \* the row or card handed to a block parser
  row,        \* what that block parser returned
  psel        \* the block parser applied: "none", "v4", "v6", "v6-compute"

dvars == <<base, max_pages, pc, caller, attempt, resp, sleeps, gets, soup, first,
           detected, pages, mode, p, all_rows, fetched, served, parsed, exhausted,
           out_csv, ret>>

pvars == <<block, row, psel>>

vars == <<dvars, pvars>>

Last(q) == q[Len(q)]

\* The locals of a run that has not assigned them yet.
Idle ==
  /\ pc = "start" /\ caller = "first" /\ attempt = 0 /\ resp = <<>> /\ sleeps = <<>>
  /\ gets = 0 /\ soup = None /\ first = None /\ detected = 0 /\ pages = 0
  /\ mode = None /\ p = 0 /\ all_rows = <<>> /\ fetched = <<>> /\ served = <<>>
  /\ parsed = <<>> /\ exhausted = None /\ out_csv = None /\ ret = None

Init ==
  /\ base \in Bases
  /\ max_pages \in Overrides
  /\ Idle
  /\ block = None /\ row = None /\ psel = "none"

\* scrape is entered: get_soup(session, page_url(base, 1)) is called.
Scrape ==
  /\ pc = "start"
  /\ pc' = "get" /\ caller' = "first" /\ attempt' = 0
  /\ resp' = <<>> /\ sleeps' = <<>>
  /\ fetched' = Append(fetched, 1)
  /\ UNCHANGED <<base, max_pages, gets, soup, first, detected, pages, mode, p,
                 all_rows, served, parsed, exhausted, out_csv, ret, pvars>>

\* One iteration of get_soup's loop answered with status 200: the document
\* is returned.
GetOk ==
  /\ pc = "get" /\ attempt < Attempts
  /\ \E doc \in Docs(Last(fetched)) :
       /\ soup' = Some(doc)
       /\ served' = Append(served, doc)
  /\ gets' = gets + 1
  /\ resp' = Append(resp, 200)
  /\ pc' = "got"
  /\ UNCHANGED <<base, max_pages, caller, attempt, sleeps, first, detected, pages,
                 mode, p, all_rows, fetched, parsed, exhausted, out_csv, ret, pvars>>

\* One iteration of get_soup's loop answered with another status: the sleep
\* of 1 + attempt seconds, then the next iteration.
GetFail ==
  /\ pc = "get" /\ attempt < Attempts
  /\ \E status \in Statuses \ {200} : resp' = Append(resp, status)
  /\ gets' = gets + 1
  /\ sleeps' = Append(sleeps, 1 + attempt)
  /\ attempt' = attempt + 1
  /\ exhausted' = IF attempt + 1 = Attempts THEN Some(Last(fetched)) ELSE exhausted
  /\ UNCHANGED <<base, max_pages, pc, caller, soup, first, detected, pages, mode, p,
                 all_rows, fetched, served, parsed, out_csv, ret, pvars>>

\* RaiseForStatus with the failure swallowed: the body of the last response
\* is parsed and returned as if it were the page.
RaiseForStatusSwallowed ==
  /\ pc = "get" /\ attempt = Attempts
  /\ pc' = "got"
  /\ soup' = Some([pag |-> None, table |-> None, inners |-> <<>>])
  /\ UNCHANGED <<base, max_pages, caller, attempt, resp, sleeps, gets, first,
                 detected, pages, mode, p, all_rows, fetched, served, parsed,
                 exhausted, out_csv, ret, pvars>>

\* The loop of get_soup is over: r.raise_for_status() on the last response,
\* after which the function ends without a return statement.
RaiseForStatus ==
  /\ pc = "get" /\ attempt = Attempts
  /\ IF RaisesHTTPError(Last(resp))
     THEN pc' = "http_error" /\ soup' = soup
     ELSE pc' = "got" /\ soup' = None
  /\ UNCHANGED <<base, max_pages, caller, attempt, resp, sleeps, gets, first,
                 detected, pages, mode, p, all_rows, fetched, served, parsed,
                 exhausted, out_csv, ret, pvars>>

\* scrape from the return of the first get_soup to the entry of the loop:
\* detect_max_pages(first) (AttributeError on None), pages, the mode.
AfterFirst ==
  /\ pc = "got" /\ caller = "first"
  /\ first' = soup
  /\ IF IsNone(soup)
     THEN /\ pc' = "attribute_error"
          /\ UNCHANGED <<detected, pages, mode, p>>
     ELSE /\ detected' = detect_max_pages(Val(soup))
          /\ pages' = TotalPages(max_pages, detected')
          /\ mode' = SelectMode(base)
          /\ IF IsNone(mode')
             THEN pc' = "config_error" /\ p' = p
             ELSE pc' = "loop" /\ p' = 1
  /\ attempt' = 0 /\ resp' = <<>> /\ sleeps' = <<>>
  /\ UNCHANGED <<base, max_pages, caller, gets, soup, all_rows, fetched, served,
                 parsed, exhausted, out_csv, ret, pvars>>

\* The loop body for p = 1: the document of the first fetch is parsed.  (The
\* prints and the pause time.sleep(sleep_s) that ends the body change no state.)
PageOne ==
  /\ pc = "loop" /\ p <= pages /\ p = 1
  /\ all_rows' = Extend(all_rows, ParsePage(Val(mode), Val(first)))
  /\ parsed' = Append(parsed, p)
  /\ p' = p + 1
  /\ UNCHANGED <<base, max_pages, pc, caller, attempt, resp, sleeps, gets, soup,
                 first, detected, pages, mode, fetched, served, exhausted, out_csv,
                 ret, pvars>>

\* The loop body for p > 1 up to the call get_soup(session, page_url(base, p)).
PageFetch ==
  /\ pc = "loop" /\ p <= pages /\ p # 1
  /\ pc' = "get" /\ caller' = "page" /\ attempt' = 0
  /\ resp' = <<>> /\ sleeps' = <<>>
  /\ fetched' = Append(fetched, p)
  /\ UNCHANGED <<base, max_pages, gets, soup, first, detected, pages, mode, p,
                 all_rows, served, parsed, exhausted, out_csv, ret, pvars>>

\* The rest of the loop body for p > 1: the parser is applied to what
\* get_soup returned (AttributeError on None).
PageParse ==
  /\ pc = "got" /\ caller = "page"
  /\ IF IsNone(soup)
     THEN /\ pc' = "attribute_error"
          /\ UNCHANGED <<all_rows, parsed, p>>
     ELSE /\ all_rows' = Extend(all_rows, ParsePage(Val(mode), Val(soup)))
          /\ parsed' = Append(parsed, p)
          /\ p' = p + 1
          /\ pc' = "loop"
  /\ attempt' = 0 /\ resp' = <<>> /\ sleeps' = <<>>
  /\ UNCHANGED <<base, max_pages, caller, gets, soup, first, detected, pages, mode,
                 fetched, served, exhausted, out_csv, ret, pvars>>

\* After the loop: the frame is built, filled, projected, written, returned.
Finish ==
  /\ pc = "loop" /\ p > pages
  /\ LET cols == ColsFor(Val(mode))
         df   == Project(FillMissing(DataFrame(all_rows), cols), cols)
     IN  IF IsNone(df)
         THEN pc' = "key_error" /\ UNCHANGED <<out_csv, ret>>
         ELSE pc' = "done" /\ out_csv' = df /\ ret' = df
  /\ UNCHANGED <<base, max_pages, caller, attempt, resp, sleeps, gets, soup, first,
                 detected, pages, mode, p, all_rows, fetched, served, parsed,
                 exhausted, pvars>>

Next ==
  \/ Scrape
  \/ GetOk
  \/ GetFail
  \/ RaiseForStatus
  \/ AfterFirst
  \/ PageOne
  \/ PageFetch
  \/ PageParse
  \/ Finish

Spec == Init /\ [][Next]_vars

\* ------------------------------------------- the block parsers on their own
ParseInit ==
  /\ base = "" /\ max_pages = None /\ Idle
  /\ \/ \E tr \in V4Rows : block = Some([kind |-> "tr", v |-> tr])
     \/ \E c \in Cards : block = Some([kind |-> "card", v |-> c])
  /\ row = None
  /\ psel = "none"

ApplyV4Row ==
  /\ psel = "none" /\ Val(block).kind = "tr"
  /\ row' = parse_v4_row(Val(block).v)
  /\ psel' = "v4"
  /\ UNCHANGED <<block, dvars>>

ApplyV6CpuBlock ==
  /\ psel = "none" /\ Val(block).kind = "card"
  /\ row' = parse_v6_cpu_block(Val(block).v)
  /\ psel' = "v6"
  /\ UNCHANGED <<block, dvars>>

ApplyV6ComputeBlock ==
  /\ psel = "none" /\ Val(block).kind = "card"
  /\ row' = parse_v6_compute_block(Val(block).v)
  /\ psel' = "v6-compute"
  /\ UNCHANGED <<block, dvars>>

ParseNext ==
  \/ ApplyV4Row
  \/ ApplyV6CpuBlock
  \/ ApplyV6ComputeBlock

ParseSpec == ParseInit /\ [][ParseNext]_vars

\* ------------------------------------------------------------------ claims
Seq1(n) == [i \in 1..n |-> i]

Fragments == {"/v6/compute", "/v6/cpu", "/v4/cpu"}

FragmentCount(b) == Cardinality({f \in Fragments : Contains(b, f)})

\* C1: a base URL with none of the recognized fragments ends the run with the
\* configuration error before any HTTP GET: no request has been made when the
\* error is raised.
C1_ConfigErrorBeforeAnyGet ==
  pc = "config_error" => gets = 0

\* C2: a call of get_soup returns a document at the first 200 response and
\* issues no further GET; after three non-200 responses, whatever their
\* codes, it has issued exactly 3 GETs and raises: it never returns normally
\* without a document.
C2_ReturnsDocumentOrRaises ==
  /\ pc = "got" =>
       /\ ~IsNone(soup)
       /\ Last(resp) = 200
       /\ \A i \in 1..(Len(resp) - 1) : resp[i] # 200
  /\ pc = "http_error" =>
       /\ Len(resp) = Attempts
       /\ \A i \in 1..Len(resp) : resp[i] # 200
  /\ Len(resp) <= Attempts

\* The total page count the run must use: the override when it is positive,
\* else what detect_max_pages returns for the document of page 1.
ExpectedTotal ==
  IF ~IsNone(max_pages) /\ Val(max_pages) >= 1 THEN Val(max_pages)
  ELSE detect_max_pages(Val(first))

\* C3 as stated: in a completed run the page count is the positive override
\* or else the detected value, pages 1..total are parsed once each in
\* ascending order, and exactly total fetches are issued, one per page number.
C3_ExactlyTotalFetches ==
  pc = "done" =>
    /\ pages = ExpectedTotal
    /\ parsed = Seq1(pages)
    /\ fetched = Seq1(pages)

\* C3 amended: in a completed run the page count is the positive override or
\* else the detected value, pages 1..total are parsed once each in ascending
\* order whatever they yield, page 1 is fetched exactly once and the fetches
\* are those of pages 1..max(total, 1): page 1 is fetched even when the
\* detected total is 0.
C3_PageWalk ==
  pc = "done" =>
    /\ pages = ExpectedTotal
    /\ parsed = Seq1(pages)
    /\ fetched = Seq1(IF pages > 1 THEN pages ELSE 1)
    /\ Len(served) = Len(fetched)

\* A completed two-page walk with a non-positive override whose first page
\* yields no record and whose second page yields some.
C3_Witness ==
  /\ pc = "done"
  /\ max_pages = Some(0)
  /\ pages = 2
  /\ ParsePage(Val(mode), served[1]) = <<>>
  /\ Len(all_rows) > 0

\* The records the parser of mode m yields for a document, and the schema tag
\* of that parser.
ExpectedRows(m, doc) ==
  CASE m = "v4-cpu" -> parse_v4_page(doc)
    [] m = "v6-cpu" -> parse_v6_cpu_page(doc)
    [] m = "v6-compute" -> parse_v6_compute_page(doc)

TagOf(m) ==
  CASE m = "v4-cpu" -> "v4" [] m = "v6-cpu" -> "v6" [] m = "v6-compute" -> "v6-compute"

RECURSIVE ConcatRows(_, _)
ConcatRows(m, docs) ==
  IF Len(docs) = 0 THEN <<>>
  ELSE ExpectedRows(m, Head(docs)) \o ConcatRows(m, Tail(docs))

\* C4: when scrape completes, the emitted rows are exactly the concatenation,
\* in page order and within a page in parser order, of the records each
\* page's parser yielded, and every row carries the schema tag of the active
\* mode's parser.
C4_RowsAreConcatenation ==
  pc = "done" =>
    LET m    == Val(mode)
        rows == Val(out_csv).rows
    IN  /\ Len(served) >= pages
        /\ rows = ConcatRows(m, SubSeq(served, 1, pages))
        /\ ret = out_csv
        /\ \A i \in 1..Len(rows) : Get(rows[i], "Schema") = TagOf(m)

\* A completed two-page run whose pages yield two records and one record.
C4_Witness ==
  /\ pc = "done"
  /\ pages = 2
  /\ Len(ExpectedRows(Val(mode), served[1])) = 2
  /\ Len(ExpectedRows(Val(mode), served[2])) = 1
  /\ Len(Val(out_csv).rows) = 3

\* C5: once the fetch of a page k has exhausted its retries the run is
\* aborted: it never re-enters the page loop, no later page is fetched, page
\* k and the later pages are not parsed, nothing is written and nothing is
\* returned.
C5_ExhaustedFetchAborts ==
  ~IsNone(exhausted) =>
    /\ pc \in {"get", "got", "http_error", "attribute_error"}
    /\ pc = "get" => attempt = Attempts
    /\ Last(fetched) = Val(exhausted)
    /\ \A i \in 1..Len(parsed) : parsed[i] < Val(exhausted)
    /\ IsNone(out_csv)
    /\ IsNone(ret)

\* The fetch of page 2 has seen three non-error non-200 answers after page 1
\* had yielded records, and the run has ended with nothing written.
C5_Witness ==
  /\ exhausted = Some(2)
  /\ pc = "attribute_error"
  /\ Len(all_rows) > 0
  /\ IsNone(out_csv)

\* C6: no record emitted by any of the three page parsers has both an empty
\* System and an empty Result URL.
C6_NoRecordWithoutSystemAndUrl ==
  \A i \in 1..Len(all_rows) :
    ~(Get(all_rows[i], "System") = "" /\ Get(all_rows[i], "Result URL") = "")

\* C7: the written output has exactly the active mode's fixed column list in
\* its fixed order (the 11 CPU columns in the CPU modes, the 11 GPU columns
\* in v6-compute mode) for every accumulated record set, the empty one
\* included, and a column no record carries is null in every row.
C7_OutputColumns ==
  pc = "done" =>
    LET df   == Val(out_csv)
        want == IF Val(mode) = "v6-compute" THEN gpu_cols ELSE cpu_cols
    IN  /\ Val(mode) \in {"v4-cpu", "v6-cpu", "v6-compute"}
        /\ Len(want) = 11
        /\ df.columns = want
        /\ Len(df.rows) = Len(all_rows)
        /\ \A i \in 1..Len(df.rows) : Keys(df.rows[i]) = want
        /\ \A j \in 1..Len(want) :
             (\A i \in 1..Len(all_rows) : want[j] \notin Range(Keys(all_rows[i])))
               => \A i \in 1..Len(df.rows) : IsNone(Get(df.rows[i], want[j]))

\* A completed v6-compute run that accumulated no record and wrote the header.
C7_Witness ==
  /\ pc = "done"
  /\ mode = Some("v6-compute")
  /\ all_rows = <<>>
  /\ Val(out_csv).columns = gpu_cols

\* C8: a mode is selected only for a base URL with exactly one recognized
\* fragment; with none or with more than one the run ends in the
\* configuration error and no page is parsed.
C8_ModeOnlyForExactlyOneFragment ==
  /\ ~IsNone(mode) => FragmentCount(base) = 1
  /\ FragmentCount(base) # 1 => parsed = <<>> /\ pc \notin {"loop", "done"}

\* C9: backoff sleeps occur only between attempts: a fetch that succeeds on
\* attempt n has slept n - 1 times, and a fetch whose three attempts all
\* fail has slept exactly twice, 1s and 2s, when it raises.
C9_SleepsOnlyBetweenAttempts ==
  /\ (Len(resp) > 0 /\ Last(resp) = 200) => Len(sleeps) = Len(resp) - 1
  /\ (Len(resp) = Attempts /\ Last(resp) # 200) => sleeps = <<1, 2>>

\* The columns of a card whose label ends in "Score", and those labelled API.
ScoreIdx(cols) ==
  {i \in 1..Len(cols) : ~IsNone(cols[i].label) /\ EndsWith(_text(cols[i].label), "Score")}

ApiIdx(cols) ==
  {i \in 1..Len(cols) : ~IsNone(cols[i].label) /\ _text(cols[i].label) = "API"}

\* C10: in every record parse_v6_compute_block emits, Score Label is empty
\* and Compute Score null when no column label ends in "Score", and otherwise
\* both come from the last such column (its label, the strict-integer parse
\* of its value); API is the text of the last column labelled API ("" when
\* there is none) whatever the score columns are and wherever they stand.
C10_ScoreLabelAndScoreFromSameColumn ==
  (psel = "v6-compute" /\ ~IsNone(row)) =>
    LET cols == Val(block).v.cols
        S == ScoreIdx(cols)
        A == ApiIdx(cols)
        r == Val(row)
    IN  /\ IF S = {}
           THEN Get(r, "Score Label") = "" /\ IsNone(Get(r, "Compute Score"))
           ELSE /\ Get(r, "Score Label") = _text(cols[Max(S)].label)
                /\ Get(r, "Compute Score") = _to_int(_text(cols[Max(S)].score))
        /\ Get(r, "API") = IF A = {} THEN "" ELSE _text(cols[Max(A)].text)

\* A card with two score columns of different labels, the API column between
\* them, emitted with the label and the score of the last one.
C10_Witness ==
  /\ psel = "v6-compute" /\ ~IsNone(row)
  /\ LET cols == Val(block).v.cols
     IN  /\ Len(cols) = 3
         /\ ScoreIdx(cols) = {1, 3} /\ ApiIdx(cols) = {2}
         /\ _text(cols[1].label) = "Metal Score"
  /\ Get(Val(row), "Score Label") = "Vulkan Score"
  /\ Get(Val(row), "Compute Score") = Some(1234)
  /\ Get(Val(row), "API") = "Vulkan"

====
